---- MODULE Spec2Model ----
(***************************************************************************)
(* Model of the network-graph descriptor loader, NetworkGraph::load in     *)
(* src/demo/level.rs.  Text is a sequence of characters (one-character     *)
(* strings); the loader splits it into lines, trims and tokenises every    *)
(* line and grows a graph of assets and links, or stops with an error.     *)
(* A Rust panic (index out of bounds) is the result kind "Panic".          *)
(***************************************************************************)
EXTENDS Integers, Sequences, FiniteSets, TLC

VARIABLES
    \* NetworkGraph::load
    string, lines, line_number, graph, pc, result,
    \* the terminal: TerminalCursor, the children of TerminalHistory,
    \* whether the input system is alive, the number of key events it has
    \* read, and the last of them
    current_input, cursor_location, history, tstate, keys, event,
    \* an application of the type-code mapping
    codec,
    \* the locals of a second call of load running at the same time
    second

loadvars  == <<string, lines, line_number, graph, pc, result>>
termvars  == <<current_input, cursor_location, history, tstate, keys, event>>
codecvars == <<codec>>
secondvars == <<second>>

vars == <<string, lines, line_number, graph, pc, result,
          current_input, cursor_location, history, tstate, keys, event,
          codec, second>>

\* The terminal as terminal() spawns it: TerminalCursor::default() and a
\* TerminalHistory without children.
TerminalInitial ==
    /\ current_input = <<>>
    /\ cursor_location = 0
    /\ history = <<>>
    /\ tstate = "ready"
    /\ keys = 0
    /\ event = [state |-> "None", key_code |-> "None",
                text |-> [some |-> FALSE, value |-> <<>>]]

\* No application of the type-code mapping is under way.
CodecIdle ==
    codec = [at |-> "idle", from |-> "none", s |-> <<>>, params |-> <<>>,
             variant |-> "none", parsed |-> [ok |-> FALSE, value |-> ""],
             out |-> <<>>]

\* No second call of load is under way.
SecondIdle ==
    second = [string |-> <<>>, lines |-> <<>>, line_number |-> 0,
              graph |-> [assets |-> <<>>, links |-> <<>>], pc |-> "idle",
              result |-> [kind |-> "None", line |-> 0, text |-> <<>>,
                          message |-> [fmt |-> "", arg |-> <<>>]]]

\* load has not been called.
LoadIdle ==
    /\ string = <<>>
    /\ lines = <<>>
    /\ line_number = 0
    /\ graph = [assets |-> <<>>, links |-> <<>>]
    /\ pc = "idle"
    /\ result = [kind |-> "None", line |-> 0, text |-> <<>>,
                 message |-> [fmt |-> "", arg |-> <<>>]]

\* ------------------------------------------------------------------------
\* Bounds of the explored inputs
\* ------------------------------------------------------------------------

\* Largest number of physical lines of an input text.
MaxLines == 3

\* Largest number of physical lines of a text when two parses run at once.
MaxLinesTwo == 2

\* Largest number of key events the terminal is given.
MaxKeys == 6

\* Largest number of extra fields tried after the name of a type line.
MaxExtra == 2

\* ------------------------------------------------------------------------
\* Characters and literal tokens
\* ------------------------------------------------------------------------

\* char::is_whitespace, restricted to the characters of the explored inputs.
IsWhitespace(c) == c \in {" ", "\t", "\r"}

KwType == <<"t", "y", "p", "e">>
KwLink == <<"l", "i", "n", "k">>
CommentMark == <<"#">>

CodePc       == <<"p", "c">>
CodeRouter   == <<"r", "o", "u", "t", "e", "r">>
CodeSwitch   == <<"s", "w", "i", "t", "c", "h">>
CodeServer   == <<"s", "e", "r", "v", "e", "r">>
CodeFirewall == <<"f", "i", "r", "e", "w", "a", "l", "l">>
CodeInternet == <<"i", "n", "t", "e", "r", "n", "e", "t">>

AssetTypes == {"Pc", "Router", "Switch", "Server", "Firewall", "Internet"}

\* as_str with the code of Router copied into the arm of Switch.
as_str_SwitchAsRouter(v) ==
    CASE v = "Pc"       -> CodePc
      [] v = "Router"   -> CodeRouter
      [] v = "Switch"   -> CodeRouter
      [] v = "Server"   -> CodeServer
      [] v = "Firewall" -> CodeFirewall
      [] v = "Internet" -> CodeInternet

\* NetworkGraphAssetType::as_str
as_str(v) ==
    CASE v = "Pc"       -> CodePc
      [] v = "Router"   -> CodeRouter
      [] v = "Switch"   -> CodeSwitch
      [] v = "Server"   -> CodeServer
      [] v = "Firewall" -> CodeFirewall
      [] v = "Internet" -> CodeInternet

\* from_str refusing a code that comes with parameters.
from_str_RejectParams(s, params) ==
    CASE params # <<>>    -> [ok |-> FALSE, value |-> "Unknown asset type"]
      [] s = CodePc       -> [ok |-> TRUE,  value |-> "Pc"]
      [] s = CodeRouter   -> [ok |-> TRUE,  value |-> "Router"]
      [] s = CodeSwitch   -> [ok |-> TRUE,  value |-> "Switch"]
      [] s = CodeServer   -> [ok |-> TRUE,  value |-> "Server"]
      [] s = CodeFirewall -> [ok |-> TRUE,  value |-> "Firewall"]
      [] s = CodeInternet -> [ok |-> TRUE,  value |-> "Internet"]
      [] OTHER            -> [ok |-> FALSE, value |-> "Unknown asset type"]

\* from_str matching the code without regard to case.
from_str_IgnoreCase(s, params) ==
    CASE s = CodePc \/ s = <<"P", "C">> -> [ok |-> TRUE,  value |-> "Pc"]
      [] s = CodeRouter   -> [ok |-> TRUE,  value |-> "Router"]
      [] s = CodeSwitch   -> [ok |-> TRUE,  value |-> "Switch"]
      [] s = CodeServer   -> [ok |-> TRUE,  value |-> "Server"]
      [] s = CodeFirewall -> [ok |-> TRUE,  value |-> "Firewall"]
      [] s = CodeInternet -> [ok |-> TRUE,  value |-> "Internet"]
      [] OTHER            -> [ok |-> FALSE, value |-> "Unknown asset type"]

\* NetworkGraphAssetType::from_str; _params is ignored by every arm.
from_str(s, params) ==
    CASE s = CodePc       -> [ok |-> TRUE,  value |-> "Pc"]
      [] s = CodeRouter   -> [ok |-> TRUE,  value |-> "Router"]
      [] s = CodeSwitch   -> [ok |-> TRUE,  value |-> "Switch"]
      [] s = CodeServer   -> [ok |-> TRUE,  value |-> "Server"]
      [] s = CodeFirewall -> [ok |-> TRUE,  value |-> "Firewall"]
      [] s = CodeInternet -> [ok |-> TRUE,  value |-> "Internet"]
      [] OTHER            -> [ok |-> FALSE, value |-> "Unknown asset type"]

\* ------------------------------------------------------------------------
\* String operations of the standard library, as the loader uses them
\* ------------------------------------------------------------------------

\* str::starts_with
StartsWith(s, prefix) ==
    /\ Len(s) >= Len(prefix)
    /\ SubSeq(s, 1, Len(prefix)) = prefix

RECURSIVE TrimStart(_)
TrimStart(s) ==
    IF s = <<>> THEN s
    ELSE IF IsWhitespace(Head(s)) THEN TrimStart(Tail(s))
    ELSE s

RECURSIVE TrimEnd(_)
TrimEnd(s) ==
    IF s = <<>> THEN s
    ELSE IF IsWhitespace(s[Len(s)]) THEN TrimEnd(SubSeq(s, 1, Len(s) - 1))
    ELSE s

\* str::trim
Trim(s) == TrimEnd(TrimStart(s))

RECURSIVE SplitWs(_, _, _)
SplitWs(s, cur, acc) ==
    IF s = <<>> THEN (IF cur = <<>> THEN acc ELSE Append(acc, cur))
    ELSE IF IsWhitespace(Head(s))
         THEN SplitWs(Tail(s), <<>>, IF cur = <<>> THEN acc ELSE Append(acc, cur))
         ELSE SplitWs(Tail(s), Append(cur, Head(s)), acc)

\* str::split_whitespace().collect()
SplitWhitespace(s) == SplitWs(s, <<>>, <<>>)

\* A line without its terminator: a "\r" right before the "\n" goes too.
StripCr(l) ==
    IF l # <<>> /\ l[Len(l)] = "\r" THEN SubSeq(l, 1, Len(l) - 1) ELSE l

RECURSIVE SplitLines(_, _, _)
SplitLines(s, cur, acc) ==
    IF s = <<>> THEN (IF cur = <<>> THEN acc ELSE Append(acc, cur))
    ELSE IF Head(s) = "\n"
         THEN SplitLines(Tail(s), <<>>, Append(acc, StripCr(cur)))
         ELSE SplitLines(Tail(s), Append(cur, Head(s)), acc)

\* str::lines().collect(): split at "\n" or "\r\n"; the final terminator is
\* optional, and an unterminated last line keeps a trailing "\r".
Lines(s) == SplitLines(s, <<>>, <<>>)

\* parts[k..] of a slice, k a 0-based index not beyond the length.
SliceFrom(parts, k) == SubSeq(parts, k + 1, Len(parts))


\* ------------------------------------------------------------------------
\* Values of the loader
\* ------------------------------------------------------------------------

\* NetworkGraph { assets: Vec::new(), links: Vec::new() }
EmptyGraph == [assets |-> <<>>, links |-> <<>>]

NoMessage == [fmt |-> "", arg |-> <<>>]
NoResult  == [kind |-> "None", line |-> 0, text |-> <<>>, message |-> NoMessage]
OkResult  == [kind |-> "Ok", line |-> 0, text |-> <<>>, message |-> NoMessage]

\* A failed read_to_string, converted by the ? operator.
IoError == [kind |-> "IoError", line |-> 0, text |-> <<>>, message |-> NoMessage]

\* An index or slice out of bounds: the thread panics, nothing is returned.
Panic(n) == [kind |-> "Panic", line |-> n, text |-> <<>>, message |-> NoMessage]

ParseError(n, msg) ==
    [kind |-> "ParseError", line |-> n, text |-> <<>>,
     message |-> [fmt |-> msg, arg |-> <<>>]]

ObjectParseError(n, object, msg) ==
    [kind |-> "ObjectParseError", line |-> n, text |-> object,
     message |-> [fmt |-> msg, arg |-> <<>>]]

InvalidDirective(n, trimmed) ==
    [kind |-> "InvalidDirective", line |-> n, text |-> trimmed,
     message |-> NoMessage]

BadLinkError(n, msg, name) ==
    [kind |-> "BadLinkError", line |-> n, text |-> <<>>,
     message |-> [fmt |-> msg, arg |-> name]]

\* The kinds load can return as Err for a line of the text.
DiagnosticKinds ==
    {"ParseError", "ObjectParseError", "InvalidDirective", "BadLinkError"}

\* Position scanning from the back: the index of the last asset of the name.
Position_Last(assets, name) ==
    IF \E i \in 1..Len(assets) : assets[i].name = name
    THEN [some |-> TRUE,
          idx  |-> (CHOOSE i \in 1..Len(assets) :
                       /\ assets[i].name = name
                       /\ \A j \in (i + 1)..Len(assets) :
                             assets[j].name # name) - 1]
    ELSE [some |-> FALSE, idx |-> 0]

\* Position counting from one, as a lookup that forgets indices are 0-based.
Position_OneBased(assets, name) ==
    IF \E i \in 1..Len(assets) : assets[i].name = name
    THEN [some |-> TRUE,
          idx  |-> CHOOSE i \in 1..Len(assets) :
                       /\ assets[i].name = name
                       /\ \A j \in 1..(i - 1) : assets[j].name # name]
    ELSE [some |-> FALSE, idx |-> 0]

\* graph.assets.iter().position(|a| a.name == name): the 0-based index of
\* the first asset of that name, or None.
Position(assets, name) ==
    IF \E i \in 1..Len(assets) : assets[i].name = name
    THEN [some |-> TRUE,
          idx  |-> (CHOOSE i \in 1..Len(assets) :
                       /\ assets[i].name = name
                       /\ \A j \in 1..(i - 1) : assets[j].name # name) - 1]
    ELSE [some |-> FALSE, idx |-> 0]

\* ------------------------------------------------------------------------
\* One iteration of the loop over the lines
\* ------------------------------------------------------------------------

\* The iteration either goes on to the next line with a graph, or leaves
\* load with a result.
Continue(g)   == [flow |-> "continue", graph |-> g, result |-> NoResult]
Return(g, r)  == [flow |-> "return",   graph |-> g, result |-> r]

\* The skip test without its comment half.
IsSkipped_NoComment(trimmed) == trimmed = <<>>

\* trimmed.is_empty() || trimmed.starts_with('#')
IsSkipped(trimmed) == trimmed = <<>> \/ StartsWith(trimmed, CommentMark)

\* trimmed.starts_with("type")
IsTypeBranch(trimmed) == ~IsSkipped(trimmed) /\ StartsWith(trimmed, KwType)

\* else if trimmed.starts_with("link")
IsLinkBranch(trimmed) ==
    /\ ~IsSkipped(trimmed)
    /\ ~StartsWith(trimmed, KwType)
    /\ StartsWith(trimmed, KwLink)

IsInvalidBranch(trimmed) ==
    /\ ~IsSkipped(trimmed)
    /\ ~StartsWith(trimmed, KwType)
    /\ ~StartsWith(trimmed, KwLink)

\* The type branch without its test of the number of fields.
TypeBranch_NoLengthCheck(g, n, trimmed) ==
    LET parts == SplitWhitespace(trimmed) IN
    IF ~(2 < Len(parts))
    THEN Return(g, Panic(n))
    ELSE LET object_type == parts[2]
             object_name == parts[3]
             parsed      == from_str(object_type, SliceFrom(parts, 3))
         IN IF ~parsed.ok
            THEN Return(g, ObjectParseError(n, object_type, parsed.value))
            ELSE Continue([g EXCEPT !.assets =
                     Append(@, [asset_type |-> parsed.value,
                                name       |-> object_name])])

\* The type branch putting the new asset in front of the list.
TypeBranch_Prepend(g, n, trimmed) ==
    LET parts == SplitWhitespace(trimmed) IN
    IF Len(parts) < 2
    THEN Return(g, ParseError(n, "Invalid type declaration"))
    ELSE IF ~(2 < Len(parts))
    THEN Return(g, Panic(n))
    ELSE LET object_type == parts[2]
             object_name == parts[3]
             parsed      == from_str(object_type, SliceFrom(parts, 3))
         IN IF ~parsed.ok
            THEN Return(g, ObjectParseError(n, object_type, parsed.value))
            ELSE Continue([g EXCEPT !.assets =
                     <<[asset_type |-> parsed.value,
                        name       |-> object_name]>> \o @])

\* The branch for object types; n is the line number already advanced.
\* parts[1], parts[2] and parts[3..] are evaluated in this order, each
\* panicking when out of bounds, before from_str runs.
TypeBranch(g, n, trimmed) ==
    LET parts == SplitWhitespace(trimmed) IN
    IF Len(parts) < 2
    THEN Return(g, ParseError(n, "Invalid type declaration"))
    ELSE IF ~(2 < Len(parts))
    THEN Return(g, Panic(n))
    ELSE LET object_type == parts[2]
             object_name == parts[3]
             parsed      == from_str(object_type, SliceFrom(parts, 3))
         IN IF ~parsed.ok
            THEN Return(g, ObjectParseError(n, object_type, parsed.value))
            ELSE Continue([g EXCEPT !.assets =
                     Append(@, [asset_type |-> parsed.value,
                                name       |-> object_name])])

\* The link branch testing for fewer than two fields, as the type branch
\* does: with two fields parts[2] is out of bounds.
LinkBranch_ShortUnchecked(g, n, trimmed) ==
    LET parts == SplitWhitespace(trimmed) IN
    IF Len(parts) < 2
    THEN Return(g, BadLinkError(n, "Invalid link declaration", <<>>))
    ELSE IF ~(2 < Len(parts))
    THEN Return(g, Panic(n))
    ELSE LET from       == parts[2]
             to         == parts[3]
             from_index == Position(g.assets, from)
             to_index   == Position(g.assets, to)
         IN IF ~from_index.some
            THEN Return(g, BadLinkError(n, "Unknown asset: ", from))
            ELSE IF ~to_index.some
            THEN Return(g, BadLinkError(n, "Unknown asset: ", to))
            ELSE Continue([g EXCEPT !.links =
                     Append(@, <<from_index.idx, to_index.idx>>)])

\* The link branch with the second lookup defaulting to index 0 when the
\* name has no match.
LinkBranch_ToUnchecked(g, n, trimmed) ==
    LET parts == SplitWhitespace(trimmed) IN
    IF Len(parts) < 3
    THEN Return(g, BadLinkError(n, "Invalid link declaration", <<>>))
    ELSE LET from       == parts[2]
             to         == parts[3]
             from_index == Position(g.assets, from)
             to_index   == Position(g.assets, to)
         IN IF ~from_index.some
            THEN Return(g, BadLinkError(n, "Unknown asset: ", from))
            ELSE Continue([g EXCEPT !.links =
                     Append(@, <<from_index.idx, to_index.idx>>)])

\* The link branch with the first lookup defaulting to index 0 when the
\* name has no match.
LinkBranch_FromUnchecked(g, n, trimmed) ==
    LET parts == SplitWhitespace(trimmed) IN
    IF Len(parts) < 3
    THEN Return(g, BadLinkError(n, "Invalid link declaration", <<>>))
    ELSE LET from       == parts[2]
             to         == parts[3]
             from_index == Position(g.assets, from)
             to_index   == Position(g.assets, to)
         IN IF ~to_index.some
            THEN Return(g, BadLinkError(n, "Unknown asset: ", to))
            ELSE Continue([g EXCEPT !.links =
                     Append(@, <<from_index.idx, to_index.idx>>)])

\* The branch for links.
LinkBranch(g, n, trimmed) ==
    LET parts == SplitWhitespace(trimmed) IN
    IF Len(parts) < 3
    THEN Return(g, BadLinkError(n, "Invalid link declaration", <<>>))
    ELSE LET from       == parts[2]
             to         == parts[3]
             from_index == Position(g.assets, from)
             to_index   == Position(g.assets, to)
         IN IF ~from_index.some
            THEN Return(g, BadLinkError(n, "Unknown asset: ", from))
            ELSE IF ~to_index.some
            THEN Return(g, BadLinkError(n, "Unknown asset: ", to))
            ELSE Continue([g EXCEPT !.links =
                     Append(@, <<from_index.idx, to_index.idx>>)])

\* The whole body of the loop for one line, n already advanced.
Body(g, n, line) ==
    LET trimmed == Trim(line) IN
    IF IsSkipped(trimmed) THEN Continue(g)
    ELSE IF StartsWith(trimmed, KwType) THEN TypeBranch(g, n, trimmed)
    ELSE IF StartsWith(trimmed, KwLink) THEN LinkBranch(g, n, trimmed)
    ELSE Return(g, InvalidDirective(n, trimmed))

\* The loop as a function of the lines still to read: the graph and the
\* result load ends with, and the number of the last line read.
RECURSIVE LoadFrom(_, _, _)
LoadFrom(g, n, ls) ==
    IF ls = <<>>
    THEN [graph |-> g, result |-> OkResult, line_number |-> n]
    ELSE LET out == Body(g, n + 1, Head(ls)) IN
         IF out.flow = "return"
         THEN [graph |-> out.graph, result |-> out.result, line_number |-> n + 1]
         ELSE LoadFrom(out.graph, n + 1, Tail(ls))

\* load on a text that was read successfully.
Load(s) == LoadFrom(EmptyGraph, 0, Lines(s))

\* ------------------------------------------------------------------------
\* Input texts
\* ------------------------------------------------------------------------

NameA == <<"a">>
NameB == <<"b">>
Sp    == <<" ">>

W2(x, y)       == x \o Sp \o y
W3(x, y, z)    == x \o Sp \o y \o Sp \o z

LineBlank      == <<>>
LineSpaces     == <<"\t", "\r">>
LineComment    == <<" ", "#">> \o KwType
LineTypePcA    == W3(KwType, CodePc, NameA)
LineTypeRtrB   == <<" ">> \o W3(KwType, CodeRouter, NameB) \o <<"\r">>
LineTypeSrvA   == W3(KwType, CodeServer, NameA)
LineTypeExtra  == KwType \o <<"\t", " ">> \o CodePc \o Sp \o NameB \o Sp \o <<"x">>
LineTypeNoName == W2(KwType, CodePc)
LineTypeBadNoName == W2(KwType, <<"P", "C">>)
LineTypeOnly   == KwType
LineTypeUpper  == W3(KwType, <<"P", "C">>, NameA)
LineLinkAB     == W3(KwLink, NameA, NameB)
LineLinkBA     == <<"\t">> \o W3(KwLink, NameB, NameA)
LineLinkShort  == W2(KwLink, NameA)
LineTypes      == W3(KwType \o <<"s">>, CodePc, NameB)
LineTypesOnly  == KwType \o <<"s">>
LineLinks      == W3(KwLink \o <<"s">>, NameA, NameA)
LineFoo        == W2(<<"f", "o", "o">>, NameA) \o Sp
LineLinkAA     == W3(KwLink, NameA, NameA)
LineLinkOnly   == KwLink

LineAlphabet ==
    {LineBlank, LineSpaces, LineComment, LineTypePcA, LineTypeRtrB,
     LineTypeSrvA, LineTypeExtra, LineTypeNoName, LineTypeBadNoName,
     LineTypeOnly, LineTypeUpper, LineLinkAB, LineLinkBA, LineLinkShort,
     LineTypes, LineTypesOnly, LineLinks, LineFoo, LineLinkAA, LineLinkOnly}

RECURSIVE JoinLines(_)
JoinLines(ls) ==
    IF ls = <<>> THEN <<>>
    ELSE IF Len(ls) = 1 THEN ls[1]
    ELSE ls[1] \o <<"\n">> \o JoinLines(Tail(ls))

\* The texts a reader can deliver: up to MaxLines lines joined by "\n".
InputStrings ==
    {JoinLines(ls) : ls \in UNION {[1..n -> LineAlphabet] : n \in 0..MaxLines}}

\* ------------------------------------------------------------------------
\* State machine of load
\* ------------------------------------------------------------------------

Init ==
    /\ string = <<>>
    /\ lines = <<>>
    /\ line_number = 0
    /\ graph = EmptyGraph
    /\ pc = "read"
    /\ result = NoResult
    /\ TerminalInitial
    /\ CodecIdle
    /\ SecondIdle

\* reader.read_to_string(&mut string).await? succeeds; the graph and the
\* line counter are set up and the iteration over string.lines() starts.
ReadToString ==
    /\ pc = "read"
    /\ \E s \in InputStrings :
          /\ string' = s
          /\ lines' = Lines(s)
    /\ line_number' = 0
    /\ graph' = EmptyGraph
    /\ pc' = "loop"
    /\ UNCHANGED <<result, termvars, codecvars, secondvars>>

\* The read fails and ? returns the error.
ReadFails ==
    /\ pc = "read"
    /\ pc' = "done"
    /\ result' = IoError
    /\ UNCHANGED <<string, lines, line_number, graph, termvars, codecvars, secondvars>>

\* An iteration that advances the counter only for the lines it does not
\* skip.
Iterate_SkippedNotCounted(line) ==
    LET n   == IF IsSkipped(Trim(line)) THEN line_number ELSE line_number + 1
        out == Body(graph, n, line)
    IN
    /\ lines' = Tail(lines)
    /\ line_number' = n
    /\ graph' = out.graph
    /\ result' = out.result
    /\ pc' = IF out.flow = "return" THEN "done" ELSE "loop"
    /\ UNCHANGED <<string, termvars, codecvars, secondvars>>

\* One iteration of the loop: the next line is taken from the iterator, the
\* counter advances, and the body either goes on or leaves load.
Iterate(line) ==
    LET out == Body(graph, line_number + 1, line) IN
    /\ lines' = Tail(lines)
    /\ line_number' = line_number + 1
    /\ graph' = out.graph
    /\ result' = out.result
    /\ pc' = IF out.flow = "return" THEN "done" ELSE "loop"
    /\ UNCHANGED <<string, termvars, codecvars, secondvars>>

\* An empty line or a comment: continue.
SkipLine ==
    /\ pc = "loop"
    /\ lines # <<>>
    /\ IsSkipped(Trim(Head(lines)))
    /\ Iterate(Head(lines))

\* A line taken as an object type declaration.
TypeLine ==
    /\ pc = "loop"
    /\ lines # <<>>
    /\ IsTypeBranch(Trim(Head(lines)))
    /\ Iterate(Head(lines))

\* A line taken as a link.
LinkLine ==
    /\ pc = "loop"
    /\ lines # <<>>
    /\ IsLinkBranch(Trim(Head(lines)))
    /\ Iterate(Head(lines))

\* Any other line: Err(InvalidDirective).
InvalidLine ==
    /\ pc = "loop"
    /\ lines # <<>>
    /\ IsInvalidBranch(Trim(Head(lines)))
    /\ Iterate(Head(lines))

\* The lines are exhausted: Ok(graph).
ReturnOk ==
    /\ pc = "loop"
    /\ lines = <<>>
    /\ pc' = "done"
    /\ result' = OkResult
    /\ UNCHANGED <<string, lines, line_number, graph, termvars, codecvars, secondvars>>

Next ==
    \/ ReadToString
    \/ ReadFails
    \/ SkipLine
    \/ TypeLine
    \/ LinkLine
    \/ InvalidLine
    \/ ReturnOk

Spec == Init /\ [][Next]_vars


\* ------------------------------------------------------------------------
\* Vocabulary of the properties
\* ------------------------------------------------------------------------

\* The physical lines of the text that was read.
AllLines == Lines(string)

\* The whitespace-separated fields of a line.
Fields(line) == SplitWhitespace(Trim(line))

\* A directive line: neither blank nor a comment.
IsDirective(line) == Trim(line) # <<>> /\ Head(Trim(line)) # "#"

\* A line whose first field is exactly the token type, or the token link.
IsTypeDirective(line) == IsDirective(line) /\ Fields(line)[1] = KwType
IsLinkDirective(line) == IsDirective(line) /\ Fields(line)[1] = KwLink

\* The six canonical codes.
CanonicalCodes ==
    {CodePc, CodeRouter, CodeSwitch, CodeServer, CodeFirewall, CodeInternet}

\* The names of the nodes of a list.
NamesOf(assets) == {assets[i].name : i \in 1..Len(assets)}

\* The loop has read at least one line; the last one read is LastRead.
HasRead  == pc # "read" /\ line_number >= 1
LastRead == AllLines[line_number]

\* ------------------------------------------------------------------------
\* Properties
\* ------------------------------------------------------------------------

\* C1: in every state of a parse, and in the returned graph, both indices of
\* every stored link are valid 0-based indices into the node list as it
\* stands in that state.
C1_LinksInBounds ==
    \A k \in 1..Len(graph.links) :
        /\ graph.links[k][1] \in 0..(Len(graph.assets) - 1)
        /\ graph.links[k][2] \in 0..(Len(graph.assets) - 1)

\* C1 witness: a returned graph with a link between two different nodes.
C1_Witness ==
    /\ pc = "done"
    /\ result.kind = "Ok"
    /\ \E k \in 1..Len(graph.links) : graph.links[k][1] # graph.links[k][2]

\* C2 (as claimed): once a type line with exactly two fields (a code, no
\* name) has been read, the parse has ended with ParseError carrying that
\* line's number.  The loader indexes the missing third field instead.
C2_TypeWithoutNameIsParseError ==
    (HasRead /\ IsTypeDirective(LastRead) /\ Len(Fields(LastRead)) = 2)
        => /\ pc = "done"
           /\ result.kind = "ParseError"
           /\ result.line = line_number

\* C3 (as claimed): a successful parse returns exactly one node per type
\* line, in order; the k-th type line gives the node at index k with that
\* line's code and name.  A line whose first field merely begins with type
\* (see C8) adds a node too.
C3_OneNodePerTypeLine ==
    (pc = "done" /\ result.kind = "Ok") =>
        LET tl == SelectSeq(AllLines, IsTypeDirective) IN
        /\ Len(graph.assets) = Len(tl)
        /\ \A k \in 1..Len(tl) :
              /\ as_str(graph.assets[k].asset_type) = Fields(tl[k])[2]
              /\ graph.assets[k].name = Fields(tl[k])[3]

\* The lines the loader takes as type declarations, and as links.
IsTypeBranchLine(line) == IsTypeBranch(Trim(line))
IsLinkBranchLine(line) == IsLinkBranch(Trim(line))

\* Companion of C3: the same statement over the lines the loader takes as
\* type declarations holds.
NodesFollowTypeBranchLines ==
    (pc = "done" /\ result.kind = "Ok") =>
        LET tl == SelectSeq(AllLines, IsTypeBranchLine) IN
        /\ Len(graph.assets) = Len(tl)
        /\ \A k \in 1..Len(tl) :
              /\ as_str(graph.assets[k].asset_type) = Fields(tl[k])[2]
              /\ graph.assets[k].name = Fields(tl[k])[3]

\* C4 (as claimed): a successful parse returns exactly one pair per link
\* line, in order; the k-th pair holds the index of a node named by the
\* line's first name, then the index of a node named by its second name.
\* A line whose first field merely begins with link (see C8) adds a pair too.
C4_OnePairPerLinkLine ==
    (pc = "done" /\ result.kind = "Ok") =>
        LET ll == SelectSeq(AllLines, IsLinkDirective) IN
        /\ Len(graph.links) = Len(ll)
        /\ \A k \in 1..Len(ll) :
              /\ graph.assets[graph.links[k][1] + 1].name = Fields(ll[k])[2]
              /\ graph.assets[graph.links[k][2] + 1].name = Fields(ll[k])[3]

\* Companion of C4: the same statement over the lines the loader takes as
\* links holds.
LinksFollowLinkBranchLines ==
    (pc = "done" /\ result.kind = "Ok") =>
        LET ll == SelectSeq(AllLines, IsLinkBranchLine) IN
        /\ Len(graph.links) = Len(ll)
        /\ \A k \in 1..Len(ll) :
              /\ graph.assets[graph.links[k][1] + 1].name = Fields(ll[k])[2]
              /\ graph.assets[graph.links[k][2] + 1].name = Fields(ll[k])[3]

\* The result of load on the first i lines of the text.
PrefixResult(i) == LoadFrom(EmptyGraph, 0, SubSeq(AllLines, 1, i)).result

\* The lines at which a parse of the text up to that line does not succeed.
FailingLines == {i \in 1..Len(AllLines) : PrefixResult(i).kind # "Ok"}

\* C5 (as claimed): a parse of a text that was read succeeds exactly when no
\* line fails; otherwise it returns one Diagnostic, the one of the earliest
\* failing line, whatever the later lines hold.  A type line without a name
\* (see C2) ends the parse with a panic instead of a Diagnostic.
C5_FirstFailureIsReturned ==
    (pc = "done" /\ result.kind # "IoError") =>
        IF FailingLines = {}
        THEN result.kind = "Ok"
        ELSE LET first == CHOOSE i \in FailingLines :
                              \A j \in FailingLines : i <= j
             IN /\ result.kind \in DiagnosticKinds
                /\ result.line = first
                /\ result = PrefixResult(first)

\* Companion of C5: with the panic counted as the outcome of its line, the
\* parse ends at the earliest failing line with that line's outcome.
StopsAtFirstFailure ==
    (pc = "done" /\ result.kind # "IoError") =>
        IF FailingLines = {}
        THEN result.kind = "Ok"
        ELSE LET first == CHOOSE i \in FailingLines :
                              \A j \in FailingLines : i <= j
             IN /\ result.kind \in DiagnosticKinds \cup {"Panic"}
                /\ result.line = first
                /\ result = PrefixResult(first)

\* The 1-based physical position of the line the iterator yields next.
NextLineNo == Len(AllLines) - Len(lines) + 1

RECURSIVE Reverse(_)
Reverse(ls) == IF ls = <<>> THEN <<>> ELSE Append(Reverse(Tail(ls)), Head(ls))

\* C6: reading a link line with at least three fields, one of whose two
\* names is the name of no node declared so far, ends the parse with
\* BadLinkError carrying that line's number and the unknown-asset message
\* for one of the names without a match; the link list is left as it was.
C6_UnknownEndpointIsBadLink ==
    [][ (/\ pc = "loop"
         /\ lines # <<>>
         /\ IsLinkDirective(Head(lines))
         /\ Len(Fields(Head(lines))) >= 3
         /\ \E k \in 2..3 : Fields(Head(lines))[k] \notin NamesOf(graph.assets))
        => /\ pc' = "done"
           /\ result'.kind = "BadLinkError"
           /\ result'.line = NextLineNo
           /\ result'.message.fmt = "Unknown asset: "
           /\ \E k \in 2..3 :
                 /\ result'.message.arg = Fields(Head(lines))[k]
                 /\ Fields(Head(lines))[k] \notin NamesOf(graph.assets)
           /\ graph'.links = graph.links ]_vars

\* C6 witness: a parse ended at a link line beyond the first by the
\* unknown-asset error for the second name, the first name being declared.
C6_Witness ==
    /\ pc = "done"
    /\ result.kind = "BadLinkError"
    /\ result.message.fmt = "Unknown asset: "
    /\ line_number >= 2
    /\ Len(graph.assets) >= 1
    /\ IsLinkDirective(LastRead)
    /\ Fields(LastRead)[2] \in NamesOf(graph.assets)
    /\ result.message.arg = Fields(LastRead)[3]

\* The line just read is a link line naming a name that no node carries yet
\* while a well-formed type line further down declares it.
ForwardReference ==
    /\ HasRead
    /\ IsLinkDirective(LastRead)
    /\ Len(Fields(LastRead)) >= 3
    /\ \E k \in 2..3 :
          /\ Fields(LastRead)[k] \notin NamesOf(graph.assets)
          /\ \E j \in (line_number + 1)..Len(AllLines) :
                /\ IsTypeDirective(AllLines[j])
                /\ Len(Fields(AllLines[j])) >= 3
                /\ Fields(AllLines[j])[2] \in CanonicalCodes
                /\ Fields(AllLines[j])[3] = Fields(LastRead)[k]

\* C7: a link line naming a node that is declared only on a later line
\* ends the parse with BadLinkError at the link line.
C7_ForwardReferenceRejected ==
    ForwardReference =>
        /\ pc = "done"
        /\ result.kind = "BadLinkError"
        /\ result.line = line_number

\* C7 witness: a forward reference was rejected in a text whose lines in
\* the opposite order parse successfully.
C7_Witness ==
    /\ ForwardReference
    /\ \A i \in 1..Len(AllLines) :
          IsTypeDirective(AllLines[i]) \/ IsLinkDirective(AllLines[i])
    /\ pc = "done"
    /\ result.kind = "BadLinkError"
    /\ Load(JoinLines(Reverse(AllLines))).result.kind = "Ok"
    /\ Len(Load(JoinLines(Reverse(AllLines))).graph.links) >= 1

\* C8 (as claimed): reading a directive line whose first field is neither
\* the token type nor the token link ends the parse with InvalidDirective
\* carrying that line's number and trimmed text, the graph left as it was.
\* The loader tests a prefix of the line, not its first field.
C8_UnknownDirectiveIsInvalid ==
    [][ (/\ pc = "loop"
         /\ lines # <<>>
         /\ IsDirective(Head(lines))
         /\ Fields(Head(lines))[1] \notin {KwType, KwLink})
        => /\ pc' = "done"
           /\ result' = InvalidDirective(NextLineNo, Trim(Head(lines)))
           /\ graph' = graph ]_vars

\* Companion of C8: the statement holds of the lines that begin with
\* neither type nor link.
UnprefixedDirectiveIsInvalid ==
    [][ (/\ pc = "loop"
         /\ lines # <<>>
         /\ IsDirective(Head(lines))
         /\ ~StartsWith(Fields(Head(lines))[1], KwType)
         /\ ~StartsWith(Fields(Head(lines))[1], KwLink))
        => /\ pc' = "done"
           /\ result' = InvalidDirective(NextLineNo, Trim(Head(lines)))
           /\ graph' = graph ]_vars

\* C9: reading a type line with a name field whose code is none of the six
\* canonical codes, compared case-sensitively, ends the parse with
\* ObjectParseError carrying that line's number and the code; no node is
\* added.
C9_UnknownCodeIsObjectParseError ==
    [][ (/\ pc = "loop"
         /\ lines # <<>>
         /\ IsTypeDirective(Head(lines))
         /\ Len(Fields(Head(lines))) >= 3
         /\ Fields(Head(lines))[2] \notin CanonicalCodes)
        => /\ pc' = "done"
           /\ result'.kind = "ObjectParseError"
           /\ result'.line = NextLineNo
           /\ result'.text = Fields(Head(lines))[2]
           /\ graph'.assets = graph.assets ]_vars

\* C9 witness: a parse ended by ObjectParseError for the code PC, on a line
\* after a node had been added.
C9_Witness ==
    /\ pc = "done"
    /\ result.kind = "ObjectParseError"
    /\ result.text = <<"P", "C">>
    /\ Len(graph.assets) >= 1
    /\ IsTypeDirective(LastRead)

\* C10: the counter equals the number of physical lines read so far, blank
\* and comment lines included, and the line number of a Diagnostic is the
\* 1-based physical position of the directive line the parse stopped at.
C10_LineNumberIsPhysical ==
    /\ pc # "read" => line_number = Len(AllLines) - Len(lines)
    /\ (pc = "done" /\ result.kind \in DiagnosticKinds) =>
          /\ result.line = Len(AllLines) - Len(lines)
          /\ result.line \in 1..Len(AllLines)
          /\ IsDirective(AllLines[result.line])

\* C10 witness: a Diagnostic for a directive that follows skipped lines only.
C10_Witness ==
    /\ pc = "done"
    /\ result.kind \in DiagnosticKinds
    /\ result.line >= 2
    /\ \A i \in 1..(result.line - 1) : ~IsDirective(AllLines[i])

\* a is a prefix of b.
IsPrefix(a, b) == Len(a) <= Len(b) /\ SubSeq(b, 1, Len(a)) = a

\* C11: in every step of a parse the node list before is a prefix of the
\* node list after and the link list before is a prefix of the link list
\* after, and the two lists together grow by at most one element.
C11_AppendOnly ==
    [][ /\ IsPrefix(graph.assets, graph'.assets)
        /\ IsPrefix(graph.links, graph'.links)
        /\ Len(graph'.assets) + Len(graph'.links)
              <= Len(graph.assets) + Len(graph.links) + 1 ]_vars

\* C11 witness: a node was appended to a list that already held a node and
\* a link.
C11_Witness ==
    /\ pc = "loop"
    /\ Len(graph.assets) >= 2
    /\ Len(graph.links) >= 1
    /\ HasRead
    /\ IsTypeDirective(LastRead)

\* The 0-based index i holds the first node of the list with the name.
IsFirstOfName(assets, i, name) ==
    /\ i \in 0..(Len(assets) - 1)
    /\ assets[i + 1].name = name
    /\ \A k \in 1..i : assets[k].name # name

\* C12: a well-formed type line whose name a declared node already carries
\* is accepted and its node gets the next index; a link line whose two names
\* are declared appends the pair of the smallest indices carrying the names.
C12_DuplicateNamesFirstMatch ==
    [][ /\ (/\ pc = "loop"
            /\ lines # <<>>
            /\ IsTypeDirective(Head(lines))
            /\ Len(Fields(Head(lines))) >= 3
            /\ Fields(Head(lines))[2] \in CanonicalCodes
            /\ Fields(Head(lines))[3] \in NamesOf(graph.assets))
           => /\ pc' = "loop"
              /\ Len(graph'.assets) = Len(graph.assets) + 1
              /\ IsPrefix(graph.assets, graph'.assets)
              /\ graph'.assets[Len(graph'.assets)].name = Fields(Head(lines))[3]
        /\ (/\ pc = "loop"
            /\ lines # <<>>
            /\ IsLinkDirective(Head(lines))
            /\ Len(Fields(Head(lines))) >= 3
            /\ Fields(Head(lines))[2] \in NamesOf(graph.assets)
            /\ Fields(Head(lines))[3] \in NamesOf(graph.assets))
           => /\ pc' = "loop"
              /\ Len(graph'.links) = Len(graph.links) + 1
              /\ IsFirstOfName(graph.assets,
                               graph'.links[Len(graph'.links)][1],
                               Fields(Head(lines))[2])
              /\ IsFirstOfName(graph.assets,
                               graph'.links[Len(graph'.links)][2],
                               Fields(Head(lines))[3]) ]_vars

\* C12 witness: two nodes of one name, of different types, and then a link
\* line with that name resolved to the first of them.
C12_Witness ==
    /\ HasRead
    /\ IsLinkDirective(LastRead)
    /\ Len(graph.assets) = 2
    /\ graph.assets[1].name = graph.assets[2].name
    /\ graph.assets[1].asset_type # graph.assets[2].asset_type
    /\ graph.links = << <<0, 0>> >>

\* C13: reading a link line with fewer than three fields ends the parse
\* with BadLinkError carrying that line's number and the invalid-link
\* message, whether or not the one name it may hold is declared; the graph
\* is left as it was.
C13_ShortLinkIsBadLink ==
    [][ (/\ pc = "loop"
         /\ lines # <<>>
         /\ IsLinkDirective(Head(lines))
         /\ Len(Fields(Head(lines))) < 3)
        => /\ pc' = "done"
           /\ result' = BadLinkError(NextLineNo, "Invalid link declaration", <<>>)
           /\ graph' = graph ]_vars

\* C13 witness: the parse ended at a link line of two fields whose name is
\* declared.
C13_Witness ==
    /\ pc = "done"
    /\ result.kind = "BadLinkError"
    /\ result.message.fmt = "Invalid link declaration"
    /\ IsLinkDirective(LastRead)
    /\ Len(Fields(LastRead)) = 2
    /\ Fields(LastRead)[2] \in NamesOf(graph.assets)

\* The lines ls with the line b put in after the first p of them.
InsertAt(ls, p, b) == SubSeq(ls, 1, p) \o <<b>> \o SubSeq(ls, p + 1, Len(ls))

\* An empty line, a line of whitespace, and a line that is a comment once
\* trimmed.
SkippableLines == {LineBlank, LineSpaces, LineComment}

\* C14: when a text parses successfully, the text with a blank, a
\* whitespace-only or a comment line inserted at any position parses
\* successfully to the same node and link sequences.
C14_SkippedLinesDoNotMatter ==
    (pc = "done" /\ result.kind = "Ok") =>
        \A p \in 0..Len(AllLines) : \A b \in SkippableLines :
            LET other == Load(JoinLines(InsertAt(AllLines, p, b))) IN
            /\ other.result.kind = "Ok"
            /\ other.graph.assets = graph.assets
            /\ other.graph.links = graph.links

\* C14 witness: a successful parse of directives only, with nodes and a
\* link, which a comment line between the directives leaves the same and
\* longer by one line.
C14_Witness ==
    /\ pc = "done"
    /\ result.kind = "Ok"
    /\ Len(AllLines) >= 2
    /\ \A i \in 1..Len(AllLines) : IsDirective(AllLines[i])
    /\ Len(graph.links) >= 1
    /\ LET other == Load(JoinLines(InsertAt(AllLines, 1, LineComment))) IN
       /\ other.graph = graph
       /\ other.line_number = line_number + 1

\* Tokens tried as extra fields of a type line, and the sequences of them.
ExtraTokens == {<<"x">>, CodePc, KwType, CommentMark}
ExtraSeqs   == UNION {[1..k -> ExtraTokens] : k \in 1..MaxExtra}

RECURSIVE JoinFields(_)
JoinFields(fs) ==
    IF fs = <<>> THEN <<>>
    ELSE IF Len(fs) = 1 THEN fs[1]
    ELSE fs[1] \o Sp \o JoinFields(Tail(fs))

\* C15: reading a type line with a canonical code, a name and any further
\* fields goes on with the parse and appends the node of that code and
\* name; the result is that of the line cut after its name, and so is the
\* result of the cut line followed by any sequence of extra fields.
C15_ExtraFieldsDiscarded ==
    [][ (/\ pc = "loop"
         /\ lines # <<>>
         /\ IsTypeDirective(Head(lines))
         /\ Len(Fields(Head(lines))) >= 3
         /\ Fields(Head(lines))[2] \in CanonicalCodes)
        => LET f     == Fields(Head(lines))
               base  == W3(KwType, f[2], f[3])
               plain == Body(graph, NextLineNo, base)
           IN /\ plain.flow = "continue"
              /\ plain.graph.links = graph.links
              /\ Len(plain.graph.assets) = Len(graph.assets) + 1
              /\ IsPrefix(graph.assets, plain.graph.assets)
              /\ plain.graph.assets[Len(plain.graph.assets)].name = f[3]
              /\ as_str(plain.graph.assets[Len(plain.graph.assets)].asset_type)
                    = f[2]
              /\ pc' = "loop"
              /\ graph' = plain.graph
              /\ \A ex \in ExtraSeqs :
                    Body(graph, NextLineNo, base \o Sp \o JoinFields(ex)) = plain
      ]_vars

\* C15 witness: a type line with a field after its name was read and its
\* node is the last of the list.
C15_Witness ==
    /\ HasRead
    /\ pc = "loop"
    /\ IsTypeDirective(LastRead)
    /\ Len(Fields(LastRead)) >= 4
    /\ Len(graph.assets) >= 2
    /\ graph.assets[Len(graph.assets)].name = Fields(LastRead)[3]

\* C18: reading a type line of the keyword alone ends the parse with
\* ParseError carrying that line's number and the invalid-type message; the
\* graph is left as it was.
C18_BareTypeIsParseError ==
    [][ (/\ pc = "loop"
         /\ lines # <<>>
         /\ IsTypeDirective(Head(lines))
         /\ Len(Fields(Head(lines))) < 2)
        => /\ pc' = "done"
           /\ result' = ParseError(NextLineNo, "Invalid type declaration")
           /\ graph' = graph ]_vars

\* C18 witness: the parse ended with ParseError at a line holding the
\* keyword type alone, after a node had been added.
C18_Witness ==
    /\ pc = "done"
    /\ result.kind = "ParseError"
    /\ result.line >= 2
    /\ Len(graph.assets) >= 1
    /\ Fields(LastRead) = <<KwType>>

\* ------------------------------------------------------------------------
\* The type-code mapping applied on its own, as the unit tests apply it
\* ------------------------------------------------------------------------

\* Codes handed to from_str: the six canonical ones and some that are not.
CandidateCodes ==
    CanonicalCodes \cup {<<"P", "C">>, <<>>, KwType, CodeRouter \o <<"s">>}

\* Parameter lists handed to from_str.
ParamSeqs == {<<>>} \cup ExtraSeqs

NoParse == [ok |-> FALSE, value |-> ""]

\* Either a code with parameters is about to be parsed and turned back into
\* a code, or a variant is about to be turned into a code and parsed back.
InitCodec ==
    /\ LoadIdle
    /\ SecondIdle
    /\ TerminalInitial
    /\ \/ \E c \in CandidateCodes, ps \in ParamSeqs :
             codec = [at |-> "start", from |-> "code", s |-> c, params |-> ps,
                      variant |-> "none", parsed |-> NoParse, out |-> <<>>]
       \/ \E v \in AssetTypes :
             codec = [at |-> "start", from |-> "variant", s |-> <<>>,
                      params |-> <<>>, variant |-> v, parsed |-> NoParse,
                      out |-> <<>>]

\* NetworkGraphAssetType::from_str(code, params)
CodecFromStr ==
    /\ codec.at = "start"
    /\ codec.from = "code"
    /\ codec' = [codec EXCEPT !.at = "parsed",
                              !.parsed = from_str(codec.s, codec.params)]
    /\ UNCHANGED <<loadvars, termvars, secondvars>>

\* .unwrap().as_str() on a code that parsed
CodecAsStr ==
    /\ codec.at = "parsed"
    /\ codec.from = "code"
    /\ codec.parsed.ok
    /\ codec' = [codec EXCEPT !.at = "done",
                              !.variant = codec.parsed.value,
                              !.out = as_str(codec.parsed.value)]
    /\ UNCHANGED <<loadvars, termvars, secondvars>>

\* .unwrap() on a code that did not parse
CodecUnwrapErr ==
    /\ codec.at = "parsed"
    /\ codec.from = "code"
    /\ ~codec.parsed.ok
    /\ codec' = [codec EXCEPT !.at = "failed"]
    /\ UNCHANGED <<loadvars, termvars, secondvars>>

\* variant.as_str()
CodecAsStrFirst ==
    /\ codec.at = "start"
    /\ codec.from = "variant"
    /\ codec' = [codec EXCEPT !.at = "coded", !.out = as_str(codec.variant)]
    /\ UNCHANGED <<loadvars, termvars, secondvars>>

\* NetworkGraphAssetType::from_str on the code of a variant
CodecFromStrBack ==
    /\ codec.at = "coded"
    /\ codec.from = "variant"
    /\ codec' = [codec EXCEPT !.at = "done",
                              !.parsed = from_str(codec.out, <<>>)]
    /\ UNCHANGED <<loadvars, termvars, secondvars>>

NextCodec ==
    \/ CodecFromStr
    \/ CodecAsStr
    \/ CodecUnwrapErr
    \/ CodecAsStrFirst
    \/ CodecFromStrBack

SpecCodec == InitCodec /\ [][NextCodec]_vars

\* C16: each of the six codes parses, and the code of the variant it parses
\* to is the code itself; the code of each of the six variants parses back
\* to that variant; the codes of different variants differ.
C16_CodeRoundTrip ==
    /\ (codec.from = "code" /\ codec.at = "parsed" /\ codec.s \in CanonicalCodes)
          => codec.parsed.ok
    /\ (codec.from = "code" /\ codec.at = "done" /\ codec.s \in CanonicalCodes)
          => codec.out = codec.s
    /\ (codec.from = "variant" /\ codec.at = "coded")
          => codec.out \in CanonicalCodes
    /\ (codec.from = "variant" /\ codec.at = "done")
          => /\ codec.parsed.ok
             /\ codec.parsed.value = codec.variant
    /\ \A v, w \in AssetTypes : v # w => as_str(v) # as_str(w)

\* C16 witness: the code switch, given with parameters, went to its variant
\* and back.
C16_Witness ==
    /\ codec.from = "code"
    /\ codec.at = "done"
    /\ codec.s = CodeSwitch
    /\ codec.params # <<>>
    /\ codec.variant = "Switch"

\* A variant went to its code and back.
C16_WitnessBack ==
    /\ codec.from = "variant"
    /\ codec.at = "done"
    /\ codec.variant = "Switch"


\* ------------------------------------------------------------------------
\* Two calls of load at the same time, each on its own reader
\* ------------------------------------------------------------------------

\* The lines of the texts of two parses at once, and the texts.
ConcurrentLines ==
    {LineComment, LineTypePcA, LineTypeRtrB, LineLinkAB, LineFoo}

ConcurrentStrings ==
    {JoinLines(ls) :
        ls \in UNION {[1..n -> ConcurrentLines] : n \in 0..MaxLinesTwo}}

\* Both calls have been made and neither has read its text.
InitTwo ==
    /\ string = <<>>
    /\ lines = <<>>
    /\ line_number = 0
    /\ graph = EmptyGraph
    /\ pc = "read"
    /\ result = NoResult
    /\ second = [string |-> <<>>, lines |-> <<>>, line_number |-> 0,
                 graph |-> EmptyGraph, pc |-> "read", result |-> NoResult]
    /\ TerminalInitial
    /\ CodecIdle

\* The first call reads its text.
ReadToStringTwo ==
    /\ pc = "read"
    /\ \E s \in ConcurrentStrings :
          /\ string' = s
          /\ lines' = Lines(s)
    /\ line_number' = 0
    /\ graph' = EmptyGraph
    /\ pc' = "loop"
    /\ UNCHANGED <<result, termvars, codecvars, secondvars>>

\* The second call reads its text.
SecondReadToString ==
    /\ second.pc = "read"
    /\ \E s \in ConcurrentStrings :
          second' = [second EXCEPT !.string = s, !.lines = Lines(s),
                                   !.line_number = 0, !.graph = EmptyGraph,
                                   !.pc = "loop"]
    /\ UNCHANGED <<loadvars, termvars, codecvars>>

\* The read of the second call fails.
SecondReadFails ==
    /\ second.pc = "read"
    /\ second' = [second EXCEPT !.pc = "done", !.result = IoError]
    /\ UNCHANGED <<loadvars, termvars, codecvars>>

\* One iteration of the second call, with a line counter the two calls
\* share.
SecondIterate_SharedCounter(line) ==
    LET out == Body(second.graph, line_number + 1, line) IN
    /\ second' = [second EXCEPT
                     !.lines = Tail(second.lines),
                     !.line_number = line_number + 1,
                     !.graph = out.graph,
                     !.result = out.result,
                     !.pc = IF out.flow = "return" THEN "done" ELSE "loop"]
    /\ line_number' = line_number + 1
    /\ UNCHANGED <<string, lines, graph, pc, result, termvars, codecvars>>

\* One iteration of the loop of the second call, on its own locals.
SecondIterate(line) ==
    LET out == Body(second.graph, second.line_number + 1, line) IN
    /\ second' = [second EXCEPT
                     !.lines = Tail(second.lines),
                     !.line_number = second.line_number + 1,
                     !.graph = out.graph,
                     !.result = out.result,
                     !.pc = IF out.flow = "return" THEN "done" ELSE "loop"]
    /\ UNCHANGED <<loadvars, termvars, codecvars>>

\* The second call takes its next line, whatever its branch.
SecondLine ==
    /\ second.pc = "loop"
    /\ second.lines # <<>>
    /\ SecondIterate(Head(second.lines))

\* The lines of the second call are exhausted: Ok(graph).
SecondReturnOk ==
    /\ second.pc = "loop"
    /\ second.lines = <<>>
    /\ second' = [second EXCEPT !.pc = "done", !.result = OkResult]
    /\ UNCHANGED <<loadvars, termvars, codecvars>>

NextTwo ==
    \/ ReadToStringTwo
    \/ ReadFails
    \/ SkipLine
    \/ TypeLine
    \/ LinkLine
    \/ InvalidLine
    \/ ReturnOk
    \/ SecondReadToString
    \/ SecondReadFails
    \/ SecondLine
    \/ SecondReturnOk

SpecTwo == InitTwo /\ [][NextTwo]_vars

\* C17: with the steps of two parses interleaved in any order, each parse
\* that read its text ends with the result and the graph of that text
\* parsed alone; two parses of one valid text end with the same node and
\* link sequences.
C17_ParsesIsolated ==
    /\ (pc = "done" /\ result.kind # "IoError") =>
          /\ result = Load(string).result
          /\ graph = Load(string).graph
    /\ (second.pc = "done" /\ second.result.kind # "IoError") =>
          /\ second.result = Load(second.string).result
          /\ second.graph = Load(second.string).graph
    /\ (/\ pc = "done"
        /\ second.pc = "done"
        /\ result.kind = "Ok"
        /\ second.result.kind # "IoError"
        /\ string = second.string)
          => /\ second.result.kind = "Ok"
             /\ second.graph = graph

\* C17 witness: the first parse has returned a Diagnostic for its second
\* line while the second parse, of another text, is between its lines with
\* a node of its own.
C17_Witness ==
    /\ pc = "done"
    /\ result.kind \in DiagnosticKinds
    /\ result.line = 2
    /\ second.pc = "loop"
    /\ second.line_number = 1
    /\ second.lines # <<>>
    /\ Len(second.graph.assets) = 1
    /\ second.string # string

\* ------------------------------------------------------------------------
\* The terminal: strings indexed by bytes
\* ------------------------------------------------------------------------

\* The length of a character in UTF-8; "é" stands for any character of more
\* than one byte.
Utf8Len(c) == IF c = "é" THEN 2 ELSE 1

\* String::len: the length in bytes.
RECURSIVE ByteLen(_)
ByteLen(str) == IF str = <<>> THEN 0 ELSE Utf8Len(Head(str)) + ByteLen(Tail(str))

\* The numbers of leading characters whose bytes end at the byte index idx;
\* empty when idx is beyond the string or inside a character.
CharsUpTo(str, idx) == {k \in 0..Len(str) : ByteLen(SubSeq(str, 1, k)) = idx}

\* str::is_char_boundary
IsCharBoundary(str, idx) == CharsUpTo(str, idx) # {}

\* The position as a count of characters of a byte index on a boundary.
CharIndex(str, idx) == CHOOSE k \in CharsUpTo(str, idx) : TRUE

\* The outcome of an operation on a String: the new value, or the kind of
\* panic.
Done(str)  == [panic |-> "none", value |-> str]
Fault(why) == [panic |-> why, value |-> <<>>]

\* The panic of an index that is not on a character boundary, or beyond
\* the end.
IndexFault(str, idx) ==
    IF idx > ByteLen(str) THEN Fault("range") ELSE Fault("boundary")

\* String::insert_str(idx, text)
InsertStr(str, idx, text) ==
    IF ~IsCharBoundary(str, idx) THEN IndexFault(str, idx)
    ELSE LET k == CharIndex(str, idx) IN
         Done(SubSeq(str, 1, k) \o text \o SubSeq(str, k + 1, Len(str)))

\* String::remove(idx): the character that starts at the byte index goes.
RemoveChar(str, idx) ==
    IF ~IsCharBoundary(str, idx) THEN IndexFault(str, idx)
    ELSE IF idx = ByteLen(str) THEN Fault("range")
    ELSE LET k == CharIndex(str, idx) IN
         Done(SubSeq(str, 1, k) \o SubSeq(str, k + 2, Len(str)))

\* String::truncate(new_len)
Truncate(str, new_len) ==
    IF new_len > ByteLen(str) THEN Done(str)
    ELSE IF ~IsCharBoundary(str, new_len) THEN Fault("boundary")
    ELSE Done(SubSeq(str, 1, CharIndex(str, new_len)))

\* ------------------------------------------------------------------------
\* The terminal: commands
\* ------------------------------------------------------------------------

\* A literal of the program stands in a text as one element.
TERMINAL_CURSOR == <<"> ">>
Newline         == <<"\n">>

AVAILABLE_COMMANDS == <<"Help", "List">>

\* Command::parse
CommandParse(input) ==
    LET trimmed == Trim(input) IN
    IF trimmed = <<>> THEN "Noop"
    ELSE IF trimmed = <<"?">> THEN "Help"
    ELSE IF trimmed = <<"l", "s">> THEN "List"
    ELSE "Invalid"

\* Display for Command: only the commands of the help have a name.
CommandToString(command) ==
    IF command = "Help" THEN Done(<<"?">>)
    ELSE IF command = "List" THEN Done(<<"l", "s">>)
    ELSE Fault("display")

\* [String]::join
RECURSIVE JoinWith(_, _)
JoinWith(strs, sep) ==
    IF strs = <<>> THEN <<>>
    ELSE IF Len(strs) = 1 THEN strs[1]
    ELSE strs[1] \o sep \o JoinWith(Tail(strs), sep)

\* The description the help gives of a word.
HelpOf(word) ==
    LET about == CommandParse(word) IN
    IF about = "Help" THEN <<"Uh... You serious?">>
    ELSE IF about = "List" THEN <<"List stuff. Like \"virus\" for viruses.">>
    ELSE <<"Man... I don't even know! What nonsense are you asking me?">>

\* What the terminal says before a word it does not know.
InvalidCommandText ==
    <<"Invalid command, dummy (type ? if you already forgot your own scripts): ">>

\* Command::run: the lines of output, or the panic of args[0] on an empty
\* slice.
CommandRun(command, args) ==
    IF command = "Help" THEN
        IF args = <<>> THEN
            LET names == [i \in 1..Len(AVAILABLE_COMMANDS) |->
                              CommandToString(AVAILABLE_COMMANDS[i])] IN
            IF \E i \in 1..Len(names) : names[i].panic # "none"
            THEN Fault("display")
            ELSE Done(<< <<"Lol, can't remember your own commands?">>,
                         JoinWith([i \in 1..Len(names) |-> names[i].value], Sp) >>)
        ELSE Done(<< args[1] \o <<": ">> \o HelpOf(args[1]) >>)
    ELSE IF command = "Invalid" THEN
        IF args = <<>> THEN Fault("args")
        ELSE Done(<< InvalidCommandText \o args[1] >>)
    ELSE IF command = "List" THEN Done(<< <<"TODO">> >>)
    ELSE Done(<< <<>> >>)

\* terminal_history: the text of the entry shown for an input and its
\* output.
terminal_history(input, output) ==
    TERMINAL_CURSOR \o input \o Newline \o JoinWith(output, Newline)

\* ------------------------------------------------------------------------
\* The terminal: one key event
\* ------------------------------------------------------------------------

\* The text a key press may carry: one character, two characters in one
\* event, a character of two bytes.
KeyTexts == { <<"?">>, Sp, <<"l", "s">>, <<"é">> }

\* The text of the Delete key where the platform gives it one (U+007F).
DeleteText == <<"DEL">>

\* What handling one event makes of the cursor: the new input and
\* location, or the kind of panic.
Edited(input, location) ==
    [panic |-> "none", current_input |-> input, cursor_location |-> location]
Panicked(why) ==
    [panic |-> why, current_input |-> <<>>, cursor_location |-> 0]

\* The end of the loop body: the text of the event goes in at the cursor.
InsertText(input, location, text) ==
    LET inserted == InsertStr(input, location, text) IN
    IF inserted.panic # "none" THEN Panicked(inserted.panic)
    ELSE Edited(inserted.value, location + 1)

\* Variant of BackspaceKey where the cursor stays in place after the last
\* character went.
BackspaceKey_NoDecrementAtEnd(input, location) ==
    LET input_length == ByteLen(input) IN
    IF location = 0 \/ input_length = 0 THEN Edited(input, location)
    ELSE IF location = input_length THEN
        LET truncated == Truncate(input, input_length - 1) IN
        IF truncated.panic # "none" THEN Panicked(truncated.panic)
        ELSE Edited(truncated.value, location)
    ELSE
        LET removed == RemoveChar(input, location) IN
        IF removed.panic # "none" THEN Panicked(removed.panic)
        ELSE Edited(removed.value, location - 1)

\* The Backspace branch.
BackspaceKey(input, location) ==
    LET input_length == ByteLen(input) IN
    IF location = 0 \/ input_length = 0 THEN Edited(input, location)
    ELSE IF location = input_length THEN
        LET truncated == Truncate(input, input_length - 1) IN
        IF truncated.panic # "none" THEN Panicked(truncated.panic)
        ELSE Edited(truncated.value, location - 1)
    ELSE
        LET removed == RemoveChar(input, location) IN
        IF removed.panic # "none" THEN Panicked(removed.panic)
        ELSE Edited(removed.value, location - 1)

\* Variant of DeleteContinues without the test for the end of the input.
DeleteContinues_OnlyEmpty(input, location) ==
    ByteLen(input) = 0

\* The Delete branch leaves the loop body early at the end of the input
\* and on an empty input.
DeleteContinues(input, location) ==
    ByteLen(input) = 0 \/ location = ByteLen(input)

\* The Enter branch: the command of the input, the arguments it is run
\* with, and its output.
EnterInput(input_raw) ==
    LET parts == SplitWhitespace(input_raw) IN
    [i \in 1..Len(parts) |-> Trim(parts[i])]

EnterCommand(input_raw) ==
    LET input == EnterInput(input_raw) IN
    IF input = <<>> THEN "Noop" ELSE CommandParse(input[1])

\* Variant of EnterArgs where every command is run with the words after
\* the first one.
EnterArgs_AlwaysRest(input_raw) ==
    SliceFrom(EnterInput(input_raw), 1)

EnterArgs(input_raw) ==
    LET input == EnterInput(input_raw)
        command == EnterCommand(input_raw) IN
    IF command \in {"Invalid", "Noop"} THEN input ELSE SliceFrom(input, 1)

EnterOutput(input_raw) ==
    CommandRun(EnterCommand(input_raw), EnterArgs(input_raw))

\* The cursor takes the outcome of an event; a panic ends the program with
\* the cursor as it was.
Apply(outcome) ==
    IF outcome.panic # "none"
    THEN /\ tstate' = outcome.panic
         /\ UNCHANGED <<current_input, cursor_location>>
    ELSE /\ current_input' = outcome.current_input
         /\ cursor_location' = outcome.cursor_location
         /\ UNCHANGED tstate

\* ------------------------------------------------------------------------
\* The terminal as a state machine: one action per kind of key event
\* ------------------------------------------------------------------------

\* The fields of a KeyboardInput the handler reads.  KeyOther stands for
\* every key that is not Enter, Backspace or Delete.
KeyCodes == {"Enter", "Backspace", "Delete", "KeyOther"}

NoText     == [some |-> FALSE, value |-> <<>>]
SomeText(t) == [some |-> TRUE, value |-> t]

\* The text of an Enter or Backspace press is not read and is left out.
Pressed(key_code, text) ==
    [state |-> "Pressed", key_code |-> key_code, text |-> text]
Released(key_code) ==
    [state |-> "Released", key_code |-> key_code, text |-> NoText]

\* The handler takes the next event of the reader, while the program runs.
ReadEvent(ev) ==
    /\ tstate = "ready"
    /\ keys < MaxKeys
    /\ keys' = keys + 1
    /\ event' = ev

InitTerm ==
    /\ LoadIdle
    /\ SecondIdle
    /\ CodecIdle
    /\ TerminalInitial

\* A release of any key is passed over.
KeyReleased ==
    /\ \E key_code \in KeyCodes : ReadEvent(Released(key_code))
    /\ UNCHANGED <<current_input, cursor_location, history, tstate>>
    /\ UNCHANGED <<loadvars, codecvars, secondvars>>

\* Variant of KeyEnter where an input without a word empties the input
\* and adds nothing to the history.
KeyEnter_SkipNoop ==
    /\ ReadEvent(Pressed("Enter", NoText))
    /\ LET output == EnterOutput(current_input) IN
       IF output.panic # "none"
       THEN /\ tstate' = output.panic
            /\ UNCHANGED <<current_input, cursor_location, history>>
       ELSE /\ history' = IF EnterCommand(current_input) = "Noop" THEN history
                          ELSE Append(history,
                                   terminal_history(current_input, output.value))
            /\ current_input' = <<>>
            /\ cursor_location' = 0
            /\ UNCHANGED tstate
    /\ UNCHANGED <<loadvars, codecvars, secondvars>>

\* Enter runs the command of the input, adds the entry to the history and
\* empties the input.  (The scroll offset it also sets is computed from the
\* layout and is not part of the model.)
KeyEnter ==
    /\ ReadEvent(Pressed("Enter", NoText))
    /\ LET output == EnterOutput(current_input) IN
       IF output.panic # "none"
       THEN /\ tstate' = output.panic
            /\ UNCHANGED <<current_input, cursor_location, history>>
       ELSE /\ history' = Append(history,
                              terminal_history(current_input, output.value))
            /\ current_input' = <<>>
            /\ cursor_location' = 0
            /\ UNCHANGED tstate
    /\ UNCHANGED <<loadvars, codecvars, secondvars>>

KeyBackspace ==
    /\ ReadEvent(Pressed("Backspace", NoText))
    /\ Apply(BackspaceKey(current_input, cursor_location))
    /\ UNCHANGED <<history, loadvars, codecvars, secondvars>>

\* Delete removes nothing: where it does not leave the loop body it goes
\* on to the text of the event, with or without one.
KeyDelete ==
    /\ \E text \in {NoText, SomeText(DeleteText)} :
          /\ ReadEvent(Pressed("Delete", text))
          /\ IF DeleteContinues(current_input, cursor_location) \/ ~text.some
             THEN UNCHANGED <<current_input, cursor_location, tstate>>
             ELSE Apply(InsertText(current_input, cursor_location, text.value))
    /\ UNCHANGED <<history, loadvars, codecvars, secondvars>>

\* Any other key with a text.
KeyText ==
    /\ \E text \in KeyTexts :
          /\ ReadEvent(Pressed("KeyOther", SomeText(text)))
          /\ Apply(InsertText(current_input, cursor_location, text))
    /\ UNCHANGED <<history, loadvars, codecvars, secondvars>>

\* Any other key without a text: the handler returns.
KeyNoText ==
    /\ ReadEvent(Pressed("KeyOther", NoText))
    /\ UNCHANGED <<current_input, cursor_location, history, tstate>>
    /\ UNCHANGED <<loadvars, codecvars, secondvars>>

NextTerm ==
    \/ KeyReleased
    \/ KeyEnter
    \/ KeyBackspace
    \/ KeyDelete
    \/ KeyText
    \/ KeyNoText

SpecTerm == InitTerm /\ [][NextTerm]_vars

\* ------------------------------------------------------------------------
\* The terminal: properties
\* ------------------------------------------------------------------------

\* The input without its k-th character.
WithoutChar(input, k) == SubSeq(input, 1, k - 1) \o SubSeq(input, k + 1, Len(input))

\* The character right behind the cursor is the k-th one: its bytes end at
\* the cursor.
IsBehindCursor(input, location, k) == k >= 1 /\ k \in CharsUpTo(input, location)

\* Every character of the input is one byte long, so that a position in
\* bytes is a position in characters.
OneByteChars(input) == \A i \in 1..Len(input) : Utf8Len(input[i]) = 1

\* A Backspace press took away the character behind the cursor and moved
\* the cursor back by one.
RemovedBehind ==
    /\ tstate' = "ready"
    /\ cursor_location' = cursor_location - 1
    /\ \E k \in 1..Len(current_input) :
          /\ IsBehindCursor(current_input, cursor_location, k)
          /\ current_input' = WithoutChar(current_input, k)

\* C19 (as claimed): a Backspace press with cursor_location > 0 on a
\* non-empty input removes the character behind the cursor (the one at
\* position cursor_location - 1) and decrements cursor_location, at the end
\* of the input and in the middle alike; stated for inputs of one-byte
\* characters.  In the middle the handler removes the character at
\* cursor_location, the one ahead of the cursor.
C19_BackspaceRemovesBehind ==
    [][(/\ KeyBackspace
        /\ cursor_location > 0
        /\ current_input # <<>>
        /\ OneByteChars(current_input))
           => RemovedBehind]_vars

\* The same for any input: behind or inside a character of several bytes
\* the removal also faults on the character boundary.
BackspaceRemovesBehindAnyChar ==
    [][(KeyBackspace /\ cursor_location > 0 /\ current_input # <<>>)
           => RemovedBehind]_vars

\* What holds of Backspace: with the cursor at the end of an input whose
\* last character is one byte long, that character goes and the cursor
\* moves back.
BackspaceAtEndRemovesLast ==
    [][(/\ KeyBackspace
        /\ current_input # <<>>
        /\ cursor_location = ByteLen(current_input)
        /\ Utf8Len(current_input[Len(current_input)]) = 1)
           => RemovedBehind]_vars

\* C20: after any key events, cursor_location is between 0 and the length
\* of current_input, and no insertion or removal was attempted at a
\* position beyond the input.
C20_CursorWithinInput ==
    /\ cursor_location \in 0..ByteLen(current_input)
    /\ tstate # "range"

\* The cursor is inside a non-empty input, after an Enter and further keys.
C20_Witness ==
    /\ tstate = "ready"
    /\ history # <<>>
    /\ OneByteChars(current_input)
    /\ cursor_location > 0
    /\ cursor_location < ByteLen(current_input)

\* The step handles a press of the key.
PressOf(key_code) == event'.state = "Pressed" /\ event'.key_code = key_code

\* The history entry shows the raw input after the prompt and then the
\* lines of output, one per line.
HoldsInputAndOutput(entry, input_raw, output) ==
    entry = <<"> ">> \o input_raw \o <<"\n">> \o JoinWith(output, <<"\n">>)

\* C21: every Enter press, whatever the input, appends exactly one history
\* entry holding the raw input and the output lines of the command and
\* leaves current_input empty and cursor_location 0; no other key event
\* adds a history entry.
C21_EnterAppendsOneEntry ==
    [][IF PressOf("Enter")
       THEN /\ tstate' = "ready"
            /\ Len(history') = Len(history) + 1
            /\ SubSeq(history', 1, Len(history)) = history
            /\ HoldsInputAndOutput(history'[Len(history')], current_input,
                                   EnterOutput(current_input).value)
            /\ current_input' = <<>>
            /\ cursor_location' = 0
       ELSE history' = history]_vars

\* Enter has just been pressed a second time, on an input unlike the first
\* one; presses of other keys came in between.
C21_Witness ==
    /\ event.state = "Pressed"
    /\ event.key_code = "Enter"
    /\ Len(history) = 2
    /\ history[1] # history[2]
    /\ keys > 2
    /\ current_input = <<>>
    /\ cursor_location = 0

\* The input is empty or made of whitespace only.
IsBlank(input) == \A i \in 1..Len(input) : IsWhitespace(input[i])

\* C22: the dispatch of a command on Enter never faults, whatever the
\* input: a blank input runs Noop and puts out a single empty line; Invalid
\* is run with a non-empty list of arguments that starts with the word that
\* was not recognized; Help and List are run with the words after the
\* first one.
C22_DispatchNeverFaults ==
    [][PressOf("Enter") =>
          LET words   == SplitWhitespace(current_input)
              command == EnterCommand(current_input)
              args    == EnterArgs(current_input)
          IN  /\ tstate' = "ready"
              /\ IsBlank(current_input) =>
                    /\ command = "Noop"
                    /\ EnterOutput(current_input).value = << <<>> >>
              /\ ~IsBlank(current_input) => command \in {"Invalid", "Help", "List"}
              /\ command = "Invalid" =>
                    /\ args # <<>>
                    /\ args[1] = words[1]
                    /\ words[1] \notin {<<"?">>, <<"l", "s">>}
              /\ command \in {"Help", "List"} =>
                    /\ words[1] \in {<<"?">>, <<"l", "s">>}
                    /\ args = Tail(words)]_vars

\* Enter has just been pressed on an input with whitespace in it whose
\* first word was not a command, and the terminal has said so.
C22_Witness ==
    /\ tstate = "ready"
    /\ event.state = "Pressed"
    /\ event.key_code = "Enter"
    /\ history # <<>>
    /\ \E i, j \in 1..Len(history[Len(history)]) :
          /\ i < j
          /\ history[Len(history)][i] = Sp[1]
          /\ <<history[Len(history)][j]>> = InvalidCommandText

\* The step handles one of the events that edit nothing: a release of any
\* key, Backspace with the cursor at 0 or on an empty input, Delete on an
\* empty input or with the cursor at the end of the input.
EditsNothing ==
    \/ event'.state = "Released"
    \/ /\ PressOf("Backspace")
       /\ cursor_location = 0 \/ current_input = <<>>
    \/ /\ PressOf("Delete")
       /\ current_input = <<>> \/ cursor_location = ByteLen(current_input)

\* C23: a key release, a Backspace at position 0 or on an empty input, and
\* a Delete on an empty input or at the end of the input leave
\* current_input and cursor_location unchanged.
C23_NoEditEventsChangeNothing ==
    [][EditsNothing =>
          /\ tstate' = "ready"
          /\ UNCHANGED <<current_input, cursor_location>>]_vars

\* Delete has just been pressed, carrying a text, with the cursor at the
\* end of a non-empty input, and its text did not go in.
C23_Witness ==
    /\ tstate = "ready"
    /\ event = Pressed("Delete", SomeText(DeleteText))
    /\ current_input # <<>>
    /\ cursor_location = ByteLen(current_input)
    /\ \A i \in 1..Len(current_input) : <<current_input[i]>> # DeleteText

====
